---- MODULE Spec2Model ----
(***************************************************************************)
(* The ucore C interface of the simple file system (src/src/c_interface.rs)*)
(* as a state machine: the buffer descriptor IoBuf and its skip, the       *)
(* inode operation table built by INodeOps::from_rust_inode, the Device    *)
(* adapter (sfs::Device for Device), the Stat converter, the panic bridge  *)
(* (lang::panic_fmt) and the mount entry point sfs_do_mount.               *)
(*                                                                         *)
(* Machine integers keep their width, scaled down: u32 and i32 have W32    *)
(* bits, usize and isize have W32 bits on a 32-bit target and              *)
(* W32 + ExtraBits bits on a 64-bit target.  Every `as` cast of the source *)
(* is modelled by the truncation or sign reinterpretation it performs.     *)
(* The target's pointer width and whether arithmetic overflow is checked   *)
(* (debug) or wraps (release) are not fixed by the source; `build` holds   *)
(* the choice and every build is explored.                                 *)
(***************************************************************************)
EXTENDS Integers, Sequences, FiniteSets, TLC

\* ---------------------------------------------------------------- bounds
\* Bits of u32 / i32 in the scaled model.
W32 == 2
\* Bits a 64-bit usize has beyond u32 in the scaled model.
ExtraBits == 1
\* Number of devices the kernel may hand to sfs_do_mount.
MaxDevices == 3

\* ------------------------------------------------------- machine integers
U32Mod == 2 ^ W32
U32Max == U32Mod - 1
I32Max == 2 ^ (W32 - 1) - 1
I32Min == -(2 ^ (W32 - 1))

UsizeBits(bld) == IF bld.wide THEN W32 + ExtraBits ELSE W32
UsizeMod(bld) == 2 ^ UsizeBits(bld)
UsizeMax(bld) == UsizeMod(bld) - 1
UsizeRange(bld) == 0 .. UsizeMax(bld)

\* `x as u32`: keep the low 32 bits.
AsU32(x) == x % U32Mod
\* `x as i32`: keep the low 32 bits, read as two's complement.
AsI32(x) == LET m == x % U32Mod IN IF m > I32Max THEN m - U32Mod ELSE m
\* `x as usize`: an i32 is sign-extended, a u32 zero-extended.
AsUsize(bld, x) == x % UsizeMod(bld)
\* `x as isize`: the usize bits read as two's complement.
AsIsize(bld, x) ==
    LET m == x % UsizeMod(bld)
    IN IF 2 * m >= UsizeMod(bld) THEN m - UsizeMod(bld) ELSE m

\* The builds the source admits: pointer width and overflow checking.
Builds == [wide : BOOLEAN, overflow_checks : BOOLEAN]

\* ------------------------------------------------------------ error codes
Ok == "Ok"
Unimplemented == "Unimplemented"
ErrorCode == {Ok, Unimplemented}

\* Option / Result values of the wrapped calls: None (or Err) is the empty
\* sequence, Some(v) (or Ok(v)) the sequence of v alone.
None == <<>>
Some(v) == <<v>>
IsSome(o) == Len(o) = 1
Unwrap(o) == o[1]

\* --------------------------------------------------------- file type tags
\* The literals are written with a leading zero in the source; Rust reads
\* them as decimal numbers.
S_IFMT == 70000
S_IFREG == 10000
S_IFDIR == 20000
S_IFLNK == 30000
S_IFCHR == 40000
S_IFBLK == 50000

FileType == {"File", "Dir", "SymLink", "CharDevice", "BlockDevice"}

\* The discriminant of vfs::FileType, which `info.type_ as u32` yields: the
\* file-type tag of the kernel's mode type field.
FileType_as_u32(t) ==
    CASE t = "File" -> S_IFREG
      [] t = "Dir" -> S_IFDIR
      [] t = "SymLink" -> S_IFLNK
      [] t = "CharDevice" -> S_IFCHR
      [] t = "BlockDevice" -> S_IFBLK

\* ------------------------------------------------------------------ state
VARIABLES
    build,      \* the build: [wide, overflow_checks]
    buf,        \* the kernel's buffer descriptor (struct iobuf)
    inode,      \* the metadata of the object behind the inode handle
    dev,        \* the kind of io slot the device handle carries
    disk,       \* what the device stores: cell -> byte
    mnt,        \* mount state: device owners, fs handles
    last,       \* the latest foreign call: op, arguments, result, state before
    status,     \* "running", "aborted" (kernel __panic), "fault" (hardware)
    diag        \* what the panic bridge wrote to the error channel

vars == <<build, buf, inode, dev, disk, mnt, last, status, diag>>

\* ------------------------------------------------------- buffer descriptor
IoBuf(base, offset, len, resident) ==
    [base |-> base, offset |-> offset, len |-> len, resident |-> resident]

\* skip with the `self.offset += len as i32` statement left out.
skip_keeps_offset(bld, b, len) ==
    IF ~(AsU32(len) <= b.resident)
    THEN [panicked |-> TRUE, site |-> "skip: assertion failed", buf |-> b]
    ELSE [panicked |-> FALSE, site |-> "",
          buf |-> [b EXCEPT !.base = (b.base + AsIsize(bld, len)) % UsizeMod(bld),
                            !.resident = b.resident - AsU32(len)]]

\* IoBuf::skip: the descriptor after the call, or the panic it ends in.  An
\* overflow panic of `offset +=` comes after `base` was assigned.
skip(bld, b, len) ==
    IF ~(AsU32(len) <= b.resident)
    THEN [panicked |-> TRUE, site |-> "skip: assertion failed", buf |-> b]
    ELSE LET b1 == [b EXCEPT !.base = (b.base + AsIsize(bld, len)) % UsizeMod(bld)]
             sum == b.offset + AsI32(len)
             overflow == sum > I32Max \/ sum < I32Min
         IN IF overflow /\ bld.overflow_checks
            THEN [panicked |-> TRUE, site |-> "skip: attempt to add with overflow",
                  buf |-> b1]
            ELSE [panicked |-> FALSE, site |-> "",
                  buf |-> [b1 EXCEPT !.offset = AsI32(sum),
                                     !.resident = b.resident - AsU32(len)]]

\* ------------------------------------------------------------ panic bridge
\* lang::panic_fmt: print the diagnostic, call the kernel's __panic, never
\* return.
panic_fmt(site) ==
    /\ diag' = site
    /\ status' = "aborted"

\* The record of a foreign call: its name, argument, what it returned
\* ("none" when it did not return), the count it reported or was given, the
\* state before it, and in out what it left in its output argument (slot)
\* and what the call it wraps returned (inner).
Call(op, arg, ret, val, out) ==
    [op |-> op, arg |-> arg, ret |-> ret, val |-> val,
     pre |-> [buf |-> buf, inode |-> inode], out |-> out]

NoCall == [op |-> "", arg |-> 0, ret |-> "none", val |-> 0,
           pre |-> [buf |-> IoBuf(0, 0, 0, 0),
                    inode |-> [size |-> 0, blocks |-> 0, mode |-> 0, type_ |-> "File"]],
           out |-> [slot |-> 0, inner |-> None]]

\* --------------------------------------------------------- input domains
RepU32 == {0, 1, U32Max}
RepI32 == {I32Min, -1, 0, I32Max}
RepUsize(bld) ==
    {0, 1, 2, I32Max, I32Max + 1, U32Max, U32Max + 1, U32Max + 2, UsizeMax(bld)}
        \cap UsizeRange(bld)

\* Descriptors the kernel hands over: the residual count does not exceed the
\* capacity and the region [base, base + resident) lies in the address space.
Descriptors(bld) ==
    {d \in {IoBuf(b, o, l, r) : b \in {0, UsizeMax(bld) - U32Max}, o \in RepI32,
                                l \in RepU32, r \in RepU32} : d.resident <= d.len}

\* vfs::FileInfo records: size and blocks are usize, mode is u32.
InfoSet(bld) ==
    {[size |-> 0, blocks |-> 0, mode |-> 0, type_ |-> "File"],
     [size |-> UsizeMax(bld), blocks |-> 1, mode |-> 420, type_ |-> "File"],
     [size |-> 1, blocks |-> UsizeMax(bld), mode |-> 493, type_ |-> "Dir"],
     [size |-> U32Max, blocks |-> 2, mode |-> 511, type_ |-> "SymLink"],
     [size |-> 2, blocks |-> U32Max, mode |-> 384, type_ |-> "CharDevice"],
     [size |-> U32Max - 1, blocks |-> U32Max - 1, mode |-> 432, type_ |-> "BlockDevice"]}

\* ------------------------------------------------- the object behind INode
\* vfs::INode::read_at / write_at on a slice of slice_len bytes: a failure,
\* or the number of bytes transferred, at most the slice's length.
INode_read_at(offset, slice_len) == {None} \cup {Some(k) : k \in 0 .. slice_len}
INode_write_at(offset, slice_len) == {None} \cup {Some(k) : k \in 0 .. slice_len}
\* vfs::INode::info: a failure, or the object's metadata.
INode_info(ino) == {None, Some(ino)}
\* vfs::INode::sync: a failure or success.
INode_sync(ino) == {None, Some(0)}

\* ---------------------------------------------------------- Stat converter
\* The converter clamping size and blocks to u32::MAX instead of truncating,
\* and counting one link.
Stat_from_saturating(info) ==
    [mode |-> info.mode, nlinks |-> 1,
     blocks |-> IF info.blocks > U32Max THEN U32Max ELSE info.blocks,
     size |-> IF info.size > U32Max THEN U32Max ELSE info.size]

\* impl From<vfs::FileInfo> for Stat
Stat_from(info) ==
    [mode |-> info.mode, nlinks |-> 0,
     blocks |-> AsU32(info.blocks), size |-> AsU32(info.size)]

\* ------------------------------------------------------ buffer operations
\* What the actions of the inode operation table leave alone.
KeepDevice == UNCHANGED <<build, dev, disk, mnt>>

\* IoBuf::skip called on the kernel's descriptor.
Skip ==
    /\ status = "running"
    /\ \E len \in RepUsize(build) :
         LET r == skip(build, buf, len)
         IN /\ buf' = r.buf
            /\ IF r.panicked THEN panic_fmt(r.site) ELSE UNCHANGED <<status, diag>>
            /\ last' = Call("skip", len, IF r.panicked THEN "none" ELSE "unit", len,
                            [slot |-> 0, inner |-> Some(len)])
    /\ UNCHANGED inode
    /\ KeepDevice

\* The trampoline body advancing by the whole view instead of the count the
\* underlying call reported.
Transfer_skips_view(op, res) ==
    IF ~IsSome(res)
    THEN /\ panic_fmt("unwrap on a None value")
         /\ buf' = buf
         /\ last' = Call(op, 0, "none", 0, [slot |-> 0, inner |-> res])
    ELSE LET r == skip(build, buf, buf.resident)
         IN /\ buf' = r.buf
            /\ IF r.panicked THEN panic_fmt(r.site) ELSE UNCHANGED <<status, diag>>
            /\ last' = Call(op, 0, IF r.panicked THEN "none" ELSE Ok, Unwrap(res),
                            [slot |-> 0, inner |-> res])

\* The body shared by the read and write trampolines: unwrap the result of
\* the underlying call, skip by the count it reports, return Ok.
Transfer(op, res) ==
    IF ~IsSome(res)
    THEN /\ panic_fmt("unwrap on a None value")
         /\ buf' = buf
         /\ last' = Call(op, 0, "none", 0, [slot |-> 0, inner |-> res])
    ELSE LET r == skip(build, buf, Unwrap(res))
         IN /\ buf' = r.buf
            /\ IF r.panicked THEN panic_fmt(r.site) ELSE UNCHANGED <<status, diag>>
            /\ last' = Call(op, 0, IF r.panicked THEN "none" ELSE Ok, Unwrap(res),
                            [slot |-> 0, inner |-> res])

\* INodeOps::from_rust_inode::read
read ==
    /\ status = "running"
    /\ \E res \in INode_read_at(AsUsize(build, buf.offset), buf.resident) :
         Transfer("read", res)
    /\ UNCHANGED inode
    /\ KeepDevice

\* INodeOps::from_rust_inode::write
write ==
    /\ status = "running"
    /\ \E res \in INode_write_at(AsUsize(build, buf.offset), buf.resident) :
         Transfer("write", res)
    /\ UNCHANGED inode
    /\ KeepDevice

\* The Stat slot the kernel passes to fstat, and the type slot it passes to
\* gettype, before the call.
StatSlot == [mode |-> 1, nlinks |-> 1, blocks |-> 1, size |-> 1]
TypeSlot == 1

\* INodeOps::from_rust_inode::fstat
fstat ==
    /\ status = "running"
    /\ \E res \in INode_info(inode) :
         IF ~IsSome(res)
         THEN /\ panic_fmt("unwrap on a None value")
              /\ last' = Call("fstat", 0, "none", 0, [slot |-> StatSlot, inner |-> res])
         ELSE /\ UNCHANGED <<status, diag>>
              /\ last' = Call("fstat", 0, Ok, 0,
                              [slot |-> Stat_from(Unwrap(res)), inner |-> res])
    /\ UNCHANGED <<buf, inode>>
    /\ KeepDevice

\* INodeOps::from_rust_inode::fsync
fsync ==
    /\ status = "running"
    /\ \E res \in INode_sync(inode) :
         IF ~IsSome(res)
         THEN /\ panic_fmt("unwrap on a None value")
              /\ last' = Call("fsync", 0, "none", 0, [slot |-> 0, inner |-> res])
         ELSE /\ UNCHANGED <<status, diag>>
              /\ last' = Call("fsync", 0, Ok, 0, [slot |-> 0, inner |-> res])
    /\ UNCHANGED <<buf, inode>>
    /\ KeepDevice

\* gettype storing the mode word instead of the type.
gettype_stores_mode ==
    /\ status = "running"
    /\ \E res \in INode_info(inode) :
         IF ~IsSome(res)
         THEN /\ panic_fmt("unwrap on a None value")
              /\ last' = Call("gettype", 0, "none", 0, [slot |-> TypeSlot, inner |-> res])
         ELSE /\ UNCHANGED <<status, diag>>
              /\ last' = Call("gettype", 0, Ok, 0,
                              [slot |-> Unwrap(res).mode, inner |-> res])
    /\ UNCHANGED <<buf, inode>>
    /\ KeepDevice

\* INodeOps::from_rust_inode::gettype
gettype ==
    /\ status = "running"
    /\ \E res \in INode_info(inode) :
         IF ~IsSome(res)
         THEN /\ panic_fmt("unwrap on a None value")
              /\ last' = Call("gettype", 0, "none", 0, [slot |-> TypeSlot, inner |-> res])
         ELSE /\ UNCHANGED <<status, diag>>
              /\ last' = Call("gettype", 0, Ok, 0,
                              [slot |-> FileType_as_u32(Unwrap(res).type_), inner |-> res])
    /\ UNCHANGED <<buf, inode>>
    /\ KeepDevice

\* ------------------------------------------------------------------ stubs
\* A slot that is not implemented: return Unimplemented, touch nothing.  The
\* argument is recorded, and the output slot is as the kernel passed it.
Stub(op, arg, slot) ==
    /\ status = "running"
    /\ last' = Call(op, arg, Unimplemented, 0, [slot |-> slot, inner |-> None])
    /\ UNCHANGED <<buf, inode, status, diag>>
    /\ KeepDevice

\* Arguments the kernel passes to the stubs: flags, positions, lengths,
\* operation codes; and the inode slot of create and lookup before the call.
StubArgs == {0, 1}
InodeSlot == 0

\* truncate cutting the file to the length asked for.
truncate_sets_size ==
    /\ status = "running"
    /\ \E len \in StubArgs :
         /\ inode' = [inode EXCEPT !.size = len]
         /\ last' = Call("truncate", len, Ok, 0, [slot |-> 0, inner |-> None])
    /\ UNCHANGED <<buf, status, diag>>
    /\ KeepDevice

open == \E flags \in StubArgs : Stub("open", flags, 0)
close == Stub("close", 0, 0)
namefile == Stub("namefile", 0, 0)
getdirentry == Stub("getdirentry", 0, 0)
reclaim == Stub("reclaim", 0, 0)
tryseek == \E pos \in StubArgs : Stub("tryseek", pos, 0)
truncate == \E len \in StubArgs : Stub("truncate", len, 0)
create == \E excl \in StubArgs : Stub("create", excl, InodeSlot)
lookup == Stub("lookup", 0, InodeSlot)
ioctl == \E op \in StubArgs : Stub("ioctl", op, 0)

Stubs == {"open", "close", "namefile", "getdirentry", "reclaim", "tryseek",
          "truncate", "create", "lookup", "ioctl"}

\* --------------------------------------------------------- device adapter
\* The byte a cell of the device holds; a cell never written holds 0.
DiskAt(dsk, a) == IF a \in DOMAIN dsk THEN dsk[a] ELSE 0

\* The kernel's update of a descriptor after moving t bytes (iobuf_skip).
IoAdvance(iob, t) ==
    [iob EXCEPT !.base = iob.base + t, !.offset = AsI32(iob.offset + t),
                !.resident = iob.resident - t]

\* The io slot of the device handle, called on descriptor iob over the
\* memory mem (mem[iob.base + i], i in 1..resident, is the view).  A "store"
\* device moves every resident byte between the view and the cells from
\* iob.offset on and returns Ok.  A "stream" device keeps nothing: it may
\* return a non-Ok code, and it moves every byte asked for or none.
Device_io(d, dsk, iob, mem, is_write) ==
    LET moved(t) ==
            [i \in 1 .. Len(mem) |->
                IF ~is_write /\ i > iob.base /\ i <= iob.base + t
                THEN IF d.io = "store" THEN DiskAt(dsk, iob.offset + (i - iob.base - 1))
                     ELSE 1
                ELSE mem[i]]
        stored(t) ==
            IF is_write /\ d.io = "store"
            THEN [a \in DOMAIN dsk \cup {iob.offset + i : i \in 0 .. t - 1} |->
                    IF a >= iob.offset /\ a < iob.offset + t
                    THEN mem[iob.base + (a - iob.offset) + 1]
                    ELSE dsk[a]]
            ELSE dsk
        outcome(ret, t) ==
            [ret |-> ret, io_buf |-> IoAdvance(iob, t), mem |-> moved(t),
             disk |-> stored(t)]
    IN IF d.io = "store"
       THEN {outcome(Ok, iob.resident)}
       ELSE {outcome(ret, t) : ret \in ErrorCode, t \in {0, iob.resident}}

\* The descriptor Device::read_at and Device::write_at build over a slice;
\* its base is the start of the slice.
Device_io_buf(offset, slice) ==
    IoBuf(0, AsI32(offset), AsU32(Len(slice)), AsU32(Len(slice)))

\* The adapter without its assert_eq!(ret, ErrorCode::Ok): the count is
\* returned whatever the io slot answered.
Device_transfer_unchecked(bld, d, dsk, offset, slice, is_write) ==
    {[panicked |-> FALSE, io_ret |-> o.ret,
      ret |-> Some(Len(slice) - AsUsize(bld, o.io_buf.resident)),
      io_buf0 |-> Device_io_buf(offset, slice), io_buf |-> o.io_buf,
      slice |-> o.mem, disk |-> o.disk] :
        o \in Device_io(d, dsk, Device_io_buf(offset, slice), slice, is_write)}

\* sfs::Device::read_at / write_at for Device: every outcome of the call.
Device_transfer(bld, d, dsk, offset, slice, is_write) ==
    {[panicked |-> o.ret # Ok, io_ret |-> o.ret,
      ret |-> Some(Len(slice) - AsUsize(bld, o.io_buf.resident)),
      io_buf0 |-> Device_io_buf(offset, slice), io_buf |-> o.io_buf,
      slice |-> o.mem, disk |-> o.disk] :
        o \in Device_io(d, dsk, Device_io_buf(offset, slice), slice, is_write)}

Device_read_at(bld, d, dsk, offset, slice) ==
    Device_transfer(bld, d, dsk, offset, slice, FALSE)

Device_write_at(bld, d, dsk, offset, slice) ==
    Device_transfer(bld, d, dsk, offset, slice, TRUE)

\* Offsets and slice lengths the file system passes to the adapter.
DevOffsets(bld) == {0, I32Max + 1, U32Max + 1} \cap UsizeRange(bld)
DevLens(bld) == {1, 2, U32Max + 1, U32Max + 2} \cap UsizeRange(bld)
\* The bytes of a slice to write, and a slice to read into.
Pattern(k, p) == [i \in 1 .. k |-> ((i + p) % 3) + 1]
Zeroes(k) == [i \in 1 .. k |-> 0]

DevCall(op, offset, slice, o) ==
    /\ disk' = o.disk
    /\ IF o.panicked
       THEN panic_fmt("assert_eq failed: io did not return Ok")
       ELSE UNCHANGED <<status, diag>>
    /\ last' = Call(op, [offset |-> offset, slice |-> slice],
                    IF o.panicked THEN "none" ELSE "Some",
                    IF o.panicked THEN 0 ELSE Unwrap(o.ret),
                    [slot |-> 0, inner |-> o.io_ret, io_buf0 |-> o.io_buf0,
                     io_buf |-> o.io_buf, slice |-> o.slice])
    /\ UNCHANGED <<build, buf, inode, dev, mnt>>

DevReadAt ==
    /\ status = "running"
    /\ \E offset \in DevOffsets(build), k \in DevLens(build) :
         \E o \in Device_read_at(build, dev, disk, offset, Zeroes(k)) :
            DevCall("read_at", offset, Zeroes(k), o)

DevWriteAt ==
    /\ status = "running"
    /\ \E offset \in DevOffsets(build), k \in DevLens(build), p \in {0, 1} :
         \E o \in Device_write_at(build, dev, disk, offset, Pattern(k, p)) :
            DevCall("write_at", offset, Pattern(k, p), o)

\* ------------------------------------------------------------------ mount
Devices == 1 .. MaxDevices
\* Addresses of struct fs records; 0 is the null pointer.
Handles == 0 .. MaxDevices
NoFs(kind) == [kind |-> kind, device |-> 0]

Mnt0 == [owner |-> [d \in Devices |-> "caller"],
         moves |-> [d \in Devices |-> 0],
         fs |-> [h \in Handles |-> NoFs("free")],
         fs_store |-> 0]

\* The kernel's __alloc_fs: a null pointer, or a record that is not in use;
\* the record's fs field is not initialised.
alloc_fs(m) == {0} \cup {h \in Handles \ {0} : m.fs[h].kind = "free"}

\* sfs::SimpleFileSystem::open(device): None, or the instance that owns the
\* device.
SimpleFileSystem_open(d) == {None, Some([kind |-> "sfs", device |-> d])}

\* sfs_do_mount writing the out slot right after the allocation, before the
\* file system is opened.
sfs_do_mount_stores_first ==
    /\ status = "running"
    /\ \E d \in {x \in Devices : mnt.owner[x] = "caller"}, h \in alloc_fs(mnt),
          ub \in {"proceed", "fault"} :
         \E res \in SimpleFileSystem_open(d) :
            LET arg == [dev |-> d, alloc |-> h, before |-> mnt]
                out == [slot |-> h, inner |-> res]
                taken == [mnt EXCEPT
                            !.fs = IF h = 0 THEN @ ELSE [@ EXCEPT ![h] = NoFs("uninit")],
                            !.moves[d] = @ + 1,
                            !.owner[d] = IF IsSome(res) THEN "fs" ELSE "dropped",
                            !.fs_store = h]
            IN IF ~IsSome(res)
               THEN /\ mnt' = taken
                    /\ panic_fmt("unwrap on a None value")
                    /\ last' = Call("sfs_do_mount", arg, "none", 0, out)
               ELSE IF ub = "fault"
               THEN /\ mnt' = taken
                    /\ status' = "fault"
                    /\ diag' = diag
                    /\ last' = Call("sfs_do_mount", arg, "none", 0, out)
               ELSE /\ mnt' = [taken EXCEPT !.fs[h] = Unwrap(res)]
                    /\ UNCHANGED <<status, diag>>
                    /\ last' = Call("sfs_do_mount", arg, Ok, 0, out)
    /\ UNCHANGED <<build, buf, inode, dev, disk>>

\* sfs_do_mount(dev, fs_store), called with a device the caller owns.  The
\* value is computed before the place is written: a failed open panics with
\* nothing stored.  The assignment to (*fs).fs drops the old value of a field
\* that was never initialised (through a null pointer when the allocation
\* failed): undefined behaviour, which either faults or goes on.
sfs_do_mount ==
    /\ status = "running"
    /\ \E d \in {x \in Devices : mnt.owner[x] = "caller"}, h \in alloc_fs(mnt),
          ub \in {"proceed", "fault"} :
         \E res \in SimpleFileSystem_open(d) :
            LET arg == [dev |-> d, alloc |-> h, before |-> mnt]
                out == [slot |-> mnt.fs_store, inner |-> res]
                taken == [mnt EXCEPT
                            !.fs = IF h = 0 THEN @ ELSE [@ EXCEPT ![h] = NoFs("uninit")],
                            !.moves[d] = @ + 1,
                            !.owner[d] = IF IsSome(res) THEN "fs" ELSE "dropped"]
            IN IF ~IsSome(res)
               THEN /\ mnt' = taken
                    /\ panic_fmt("unwrap on a None value")
                    /\ last' = Call("sfs_do_mount", arg, "none", 0, out)
               ELSE IF ub = "fault"
               THEN /\ mnt' = taken
                    /\ status' = "fault"
                    /\ diag' = diag
                    /\ last' = Call("sfs_do_mount", arg, "none", 0, out)
               ELSE /\ mnt' = [taken EXCEPT !.fs[h] = Unwrap(res), !.fs_store = h]
                    /\ UNCHANGED <<status, diag>>
                    /\ last' = Call("sfs_do_mount", arg, Ok, 0, [out EXCEPT !.slot = h])
    /\ UNCHANGED <<build, buf, inode, dev, disk>>

\* --------------------------------------------------------- specifications
InitBase ==
    /\ build \in Builds
    /\ disk = <<>>
    /\ mnt = Mnt0
    /\ last = NoCall
    /\ status = "running"
    /\ diag = ""

\* The inode operation table and IoBuf::skip, on every descriptor and inode.
InitOps ==
    /\ InitBase
    /\ buf \in Descriptors(build)
    /\ inode \in InfoSet(build)
    /\ dev = [io |-> "stream"]

NextOps ==
    \/ Skip
    \/ read
    \/ write
    \/ fstat
    \/ fsync
    \/ gettype
    \/ open
    \/ close
    \/ namefile
    \/ getdirentry
    \/ reclaim
    \/ tryseek
    \/ truncate
    \/ create
    \/ lookup
    \/ ioctl

SpecOps == InitOps /\ [][NextOps]_vars

\* The device adapter over a device whose io slot is a faithful store.
InitDev ==
    /\ InitBase
    /\ buf = NoCall.pre.buf
    /\ inode = NoCall.pre.inode
    /\ dev = [io |-> "store"]

NextDev ==
    \/ DevReadAt
    \/ DevWriteAt

SpecDev == InitDev /\ [][NextDev]_vars

\* The mount entry point.
InitMount ==
    /\ InitBase
    /\ buf = NoCall.pre.buf
    /\ inode = NoCall.pre.inode
    /\ dev = [io |-> "store"]

NextMount == sfs_do_mount

SpecMount == InitMount /\ [][NextMount]_vars

\* The operation table and the device adapter together, over a stream
\* device, from the descriptors of a full-capacity transfer.
Init ==
    /\ InitBase
    /\ buf \in {d \in Descriptors(build) :
                  d.base = 0 /\ d.len = U32Max /\ d.resident \in {1, U32Max}
                  /\ d.offset \in {0, I32Max}}
    /\ inode \in {i \in InfoSet(build) : i.type_ = "Dir"}
    /\ dev = [io |-> "stream"]

Next ==
    \/ NextOps
    \/ NextDev

Spec == Init /\ [][Next]_vars

\* ================================================================= claims
\* What IoBuf::skip(n) leaves when it returns: offset and base advanced by
\* n, resident lowered by n, len as it was.
SkipAdvanced ==
    /\ last.ret = "unit"
    /\ buf.offset = last.pre.buf.offset + last.arg
    /\ buf.resident = last.pre.buf.resident - last.arg
    /\ buf.base = last.pre.buf.base + last.arg
    /\ buf.len = last.pre.buf.len

\* C1 as stated: for every descriptor and every n <= resident, skip(n)
\* returns with offset + n, resident - n, base + n and len unchanged.
C1_AsStated ==
    (last.op = "skip" /\ last.arg <= last.pre.buf.resident) => SkipAdvanced

\* C1, amended: for every descriptor and every n <= resident with
\* n <= i32::MAX and offset + n <= i32::MAX, skip(n) returns with offset + n,
\* resident - n, base + n and len unchanged.
C1_SkipAdvances ==
    (/\ last.op = "skip"
     /\ last.arg <= last.pre.buf.resident
     /\ last.arg <= I32Max
     /\ last.pre.buf.offset + last.arg <= I32Max) => SkipAdvanced

C1_Witness ==
    /\ last.op = "skip"
    /\ last.arg > 0
    /\ last.arg <= last.pre.buf.resident
    /\ last.arg <= I32Max
    /\ last.pre.buf.offset + last.arg <= I32Max
    /\ last.pre.buf.base > 0
    /\ buf.offset = last.pre.buf.offset + last.arg

\* C2: for every descriptor and every n of the usize range with n > resident,
\* skip(n) ends in the assertion's panic and leaves the descriptor as it was.
C2_SkipRejects ==
    (last.op = "skip" /\ last.arg > last.pre.buf.resident) =>
        (status = "aborted" /\ last.ret = "none" /\ buf = last.pre.buf)

\* C3 as stated: whenever read or write returns Ok, resident has dropped by
\* the count k the underlying call reported, offset has risen by k, and
\* resident is not negative.
C3_AsStated ==
    (last.op \in {"read", "write"} /\ last.ret = Ok) =>
        /\ buf.resident = last.pre.buf.resident - last.val
        /\ buf.offset = last.pre.buf.offset + last.val
        /\ buf.resident >= 0

\* C3, amended: whenever read or write returns Ok, resident has dropped by
\* the count k the underlying call reported and is not negative, and offset
\* has risen by k provided offset + k <= i32::MAX.
C3_TrampolineAdvances ==
    (last.op \in {"read", "write"} /\ last.ret = Ok) =>
        /\ buf.resident = last.pre.buf.resident - last.val
        /\ buf.resident >= 0
        /\ (last.pre.buf.offset + last.val <= I32Max =>
                buf.offset = last.pre.buf.offset + last.val)

C3_Witness ==
    /\ last.op = "write"
    /\ last.ret = Ok
    /\ last.val > 0
    /\ last.val < last.pre.buf.resident
    /\ buf.offset = last.pre.buf.offset + last.val

\* C4: every slot that is not implemented returns Unimplemented and leaves
\* the inode (its size included), the descriptor and the output slot as they
\* were.
C4_StubsDoNothing ==
    (last.op \in Stubs) =>
        /\ last.ret = Unimplemented
        /\ inode = last.pre.inode
        /\ buf = last.pre.buf
        /\ last.out.slot = (IF last.op \in {"create", "lookup"} THEN InodeSlot ELSE 0)
        /\ status = "running"

C4_Witness ==
    /\ last.op = "truncate"
    /\ last.arg < inode.size
    /\ last.ret = Unimplemented

\* C5: fstat stores the Stat converter's record: nlinks 0, mode copied,
\* blocks and size the input's reduced modulo 2^32, hence equal to the
\* input's whenever they fit 32 unsigned bits.
C5_StatConverted ==
    (last.op = "fstat" /\ last.ret = Ok) =>
        /\ last.out.slot.nlinks = 0
        /\ last.out.slot.mode = inode.mode
        /\ last.out.slot.blocks = inode.blocks % U32Mod
        /\ last.out.slot.size = inode.size % U32Mod
        /\ (inode.blocks <= U32Max => last.out.slot.blocks = inode.blocks)
        /\ (inode.size <= U32Max => last.out.slot.size = inode.size)

C5_Witness ==
    /\ last.op = "fstat"
    /\ last.ret = Ok
    /\ inode.size > U32Max
    /\ last.out.slot.size = U32Max
    /\ last.out.slot.blocks = inode.blocks

C6_RoundTrip ==
    [][(/\ last.op = "write_at"
        /\ last.ret = "Some"
        /\ last'.op = "read_at"
        /\ last'.ret = "Some"
        /\ last'.arg.offset = last.arg.offset
        /\ Len(last'.arg.slice) = Len(last.arg.slice))
       => (/\ last'.val = Len(last.arg.slice)
           /\ last'.out.slice = last.arg.slice)]_vars

\* C8: the residual count never exceeds the capacity, and after every skip,
\* read, write, read_at and write_at that returns, the residual is the one
\* before the call minus the bytes the call transferred.
C8_ResidualInvariant ==
    /\ buf.resident <= buf.len
    /\ (last.op \in {"skip", "read", "write"} /\ last.ret # "none") =>
          buf.resident = last.pre.buf.resident - last.val
    /\ (last.op \in {"read_at", "write_at"} /\ last.ret # "none") =>
          /\ last.out.io_buf.resident <= last.out.io_buf.len
          /\ last.out.io_buf.resident = last.out.io_buf0.resident - last.val

\* C9: when sfs_do_mount returns it returns Ok, the out slot holds the
\* handle __alloc_fs gave, that handle holds the instance open produced for
\* the device, and the device went from the caller to that instance once.
\* When open fails the call panics, returns nothing and leaves the out slot
\* as it was.  No device changes owner more than once.
C9_Mount ==
    /\ (last.op = "sfs_do_mount" /\ last.ret # "none") =>
          /\ last.ret = Ok
          /\ IsSome(last.out.inner)
          /\ mnt.fs_store = last.arg.alloc
          /\ mnt.fs[mnt.fs_store] = [kind |-> "sfs", device |-> last.arg.dev]
          /\ last.arg.before.owner[last.arg.dev] = "caller"
          /\ mnt.owner[last.arg.dev] = "fs"
          /\ mnt.moves[last.arg.dev] = 1
    /\ (last.op = "sfs_do_mount" /\ ~IsSome(last.out.inner)) =>
          /\ last.ret = "none"
          /\ status = "aborted"
          /\ mnt.fs_store = last.arg.before.fs_store
    /\ \A d \in Devices : mnt.moves[d] <= 1

C9_Witness ==
    /\ last.op = "sfs_do_mount"
    /\ ~IsSome(last.out.inner)
    /\ status = "aborted"
    /\ mnt.fs_store # 0
    /\ mnt.fs[mnt.fs_store].kind = "sfs"
    /\ mnt.owner[mnt.fs[mnt.fs_store].device] = "fs"

\* C10: a non-Ok answer of the io slot inside read_at or write_at, a failed
\* unwrap inside a trampoline, and a failed skip assertion all end in the
\* panic bridge: the diagnostic is written, the kernel's abort is called, the
\* call returns neither an ErrorCode nor a count, and nothing runs after.
C10_FaultsAbort ==
    /\ (last.op \in {"read_at", "write_at"} /\ last.out.inner # Ok) =>
          (status = "aborted" /\ last.ret = "none")
    /\ (last.op \in {"read", "write", "fstat", "fsync", "gettype"}
        /\ ~IsSome(last.out.inner)) =>
          (status = "aborted" /\ last.ret = "none")
    /\ (last.op \in {"skip", "read", "write"} /\ IsSome(last.out.inner)
        /\ AsU32(last.val) > last.pre.buf.resident) =>
          (status = "aborted" /\ last.ret = "none" /\ buf = last.pre.buf)
    /\ (status = "aborted") => (diag # "" /\ last.ret = "none" /\ ~ENABLED Next)

C10_Witness ==
    /\ last.op = "read_at"
    /\ last.out.inner = Unimplemented
    /\ status = "aborted"
    /\ diag # ""
    /\ last.ret = "none"

====
